---- MODULE Spec2Model ----
(***************************************************************************)
(* Model of the ghostwriter feedback-learning core:                        *)
(*   - FeedbackMemoryStore (feedback_system.py): the per-profile JSON      *)
(*     feedback log, the per-profile FAISS feedback index (in memory and   *)
(*     saved on disk), store_feedback, get_relevant_feedback and           *)
(*     get_profile_feedback_summary;                                       *)
(*   - the generation orchestrator (api.py): generate_post,                *)
(*     generate_post_with_feedback, POST /generate and POST /regenerate.   *)
(*   - the profile endpoints (api.py), the lazily built shared objects,    *)
(*     and the feedback-aware prompt of FeedbackEnhancedGenerator with     *)
(*     the text of the indexed documents it parses.                        *)
(*                                                                         *)
(* Texts are abstracted to small values: a context text is a point of      *)
(* Contexts and the embedding distance between two texts is the distance   *)
(* between their points.  A timestamp is the string datetime.isoformat()   *)
(* produces, kept as the tuple of its fixed-width fields and compared as   *)
(* Python compares strings.                                                *)
(***************************************************************************)
EXTENDS Integers, Sequences, FiniteSets, TLC

(***************************************************************************)
(* Bounds of the model.                                                    *)
(***************************************************************************)
MaxCalls == 3        \* store_feedback calls in one run
UsecPerSec == 2      \* microsecond ticks per second of the modelled clock
MaxK == 2            \* k of get_relevant_feedback ranges over 1..MaxK
MaxLog == 6          \* entries of the log the summary is taken of
ApiK == 5            \* and the k of GET /profiles/{name}/feedback/relevant

\* values of the wall clock at which entries are created, in ticks
Times == {0, 1}

Profiles == {"p", "q"}

\* context texts, as points of the embedding space
Contexts == {0, 1}

\* feedback_type: str -- the three documented kinds, and any other string
Kinds == {"positive", "negative", "refinement"}
FeedbackTypes == Kinds \cup {"other"}

\* feedback_type=None (no filter) of get_relevant_feedback
NoType == "None"

(***************************************************************************)
(* Sequence helpers.                                                       *)
(***************************************************************************)
Range(s) == {s[i] : i \in 1..Len(s)}

Min(a, b) == IF a <= b THEN a ELSE b

\* faulty variant: the slice is not taken
TakeAll(s, n) == s

\* s[:n]
Take(s, n) == SubSeq(s, 1, Min(n, Len(s)))

\* len([x for x in s if Test(x)])
Count(s, Test(_)) == Len(SelectSeq(s, Test))

(***************************************************************************)
(* Timestamps.                                                             *)
(***************************************************************************)
\* datetime.now().isoformat(): "YYYY-MM-DDTHH:MM:SS" followed by ".ffffff"
\* only when the microsecond field is not zero.  Both fields have a fixed
\* width, so each is one symbol of the string here.
isoformat(t) ==
    LET sec == t \div UsecPerSec
        usec == t % UsecPerSec
    IN  IF usec = 0 THEN <<sec>> ELSE <<sec, usec>>

\* Python's str comparison a < b: the first differing symbol decides, a
\* proper prefix is smaller.
RECURSIVE StrLess(_, _)
StrLess(a, b) ==
    IF b = <<>> THEN FALSE
    ELSE IF a = <<>> THEN TRUE
    ELSE IF Head(a) # Head(b) THEN Head(a) < Head(b)
    ELSE StrLess(Tail(a), Tail(b))

\* list.sort(key=lambda x: x[1], reverse=True) over (item, key) pairs:
\* descending by key and stable, so pairs with equal keys keep the order
\* they had.  x goes after every pair whose key is not smaller than its own.
\* faulty variant: reverse=True is missing, the smallest key comes first
RECURSIVE InsertAsc(_, _)
InsertAsc(sorted, x) ==
    IF sorted = <<>> THEN <<x>>
    ELSE IF StrLess(x[2], Head(sorted)[2])
         THEN <<x>> \o sorted
         ELSE <<Head(sorted)>> \o InsertAsc(Tail(sorted), x)

RECURSIVE InsertDesc(_, _)
InsertDesc(sorted, x) ==
    IF sorted = <<>> THEN <<x>>
    ELSE IF StrLess(Head(sorted)[2], x[2])
         THEN <<x>> \o sorted
         ELSE <<Head(sorted)>> \o InsertDesc(Tail(sorted), x)

RECURSIVE SortDescFrom(_, _)
SortDescFrom(done, rest) ==
    IF rest = <<>> THEN done
    ELSE SortDescFrom(InsertDesc(done, Head(rest)), Tail(rest))

\* faulty variant: the list is left in the order the search returned it
Unsorted(pairs) == pairs

SortDesc(pairs) == SortDescFrom(<<>>, pairs)

(***************************************************************************)
(* Profile names and sample files (api.py).  A name is the sequence of its *)
(* characters; a path is a directory and the stem of a .txt file.          *)
(***************************************************************************)
LowerCase == [W |-> "w", D |-> "d"]

\* str.lower(), character by character
lower(c) == IF c \in DOMAIN LowerCase THEN LowerCase[c] ELSE c

Whitespace == {" ", "\n"}

RECURSIVE lstrip(_)
lstrip(text) ==
    IF text # <<>> /\ Head(text) \in Whitespace
    THEN lstrip(Tail(text)) ELSE text

RECURSIVE rstrip(_)
rstrip(text) ==
    IF text # <<>> /\ text[Len(text)] \in Whitespace
    THEN rstrip(SubSeq(text, 1, Len(text) - 1)) ELSE text

\* str.strip()
strip(text) == rstrip(lstrip(text))

\* the characters re.sub(r"[^a-z0-9 _-]", "", text) keeps
SlugChars ==
    {"a", "b", "c", "d", "e", "f", "g", "h", "i", "j", "k", "l", "m", "n",
     "o", "p", "q", "r", "s", "t", "u", "v", "w", "x", "y", "z",
     "0", "1", "2", "3", "4", "5", "6", "7", "8", "9", " ", "_", "-"}

slugify(text) ==
    LET lowered == strip([i \in 1..Len(text) |-> lower(text[i])])
        Kept(c) == c \in SlugChars
        kept == SelectSeq(lowered, Kept)
    IN  [i \in 1..Len(kept) |-> IF kept[i] = " " THEN "_" ELSE kept[i]]

\* the reserved profile name "default"
Default == <<"d", "e", "f", "a", "u", "l", "t">>

\* DEFAULT_FILE = "storytelling.txt", in the working directory; no name
\* resolves to it but "default", so its stem is kept as one symbol
DEFAULT_FILE == [dir |-> ".", stem |-> <<"storytelling">>]

PROFILES_DIR == "profiles"

get_profile_file(name) ==
    IF name = Default THEN DEFAULT_FILE
    ELSE [dir |-> PROFILES_DIR, stem |-> slugify(name)]

\* profile names requests carry: two spellings of one profile, and "default"
Work == <<"w">>
RequestNames == {Default, Work, <<"W">>}

\* a name that differs from the reserved one by its case only
CapitalDefault == <<"D", "e", "f", "a", "u", "l", "t">>

\* the names POST /profiles is sent
CreationNames == RequestNames \cup {CapitalDefault}

\* the sample files those names resolve to
Paths == {get_profile_file(name) : name \in CreationNames}

\* texts a request submits as samples
SampleTexts == {"s1", "s2"}

(***************************************************************************)
(* State.                                                                  *)
(***************************************************************************)
VARIABLES
    calls,            \* number of store_feedback calls made so far
    feedback_file,    \* profile -> content of <profile>_feedback.json
    vector_disk,      \* profile -> content of <profile>_feedback_vectors
    feedback_stores,  \* profile -> documents of self.feedback_stores[profile]
    reported,         \* entries for which store_feedback returned True
    last_store,       \* the last store_feedback call: entry, fault, result
    profile_files,    \* paths of the sample files that exist
    vectorstores,     \* keys of api._vectorstores, the style index cache
    requests,         \* number of generation requests served so far
    response,         \* the last generation request and its response
    samples,          \* path -> the sample texts written to the file, in order
    style_index,      \* cached name -> the sample texts in _vectorstores[name]
    profile_response, \* the last profile request and its response
    summary_call,     \* the last get_profile_feedback_summary call
    prompt_call,      \* the last prompt assembly and the prompts it led to
    handlers,         \* the request handlers running side by side
    shared            \* the lazily built process-wide objects

feedback_vars == <<calls, feedback_file, vector_disk, feedback_stores,
                   reported, last_store>>

api_vars == <<profile_files, vectorstores, requests, response, samples,
              style_index, profile_response>>

client_vars == <<summary_call, prompt_call, handlers, shared>>

vars == <<feedback_vars, api_vars, client_vars>>

\* os.path.exists(feedback_file): the file is created by the first write
\* and every write holds at least one entry
FileExists(p) == Len(feedback_file[p]) > 0

\* os.path.exists(vector_store_path): created by the first save_local
VectorStoreExists(p) == Len(vector_disk[p]) > 0

\* profile_name in self.feedback_stores
InFeedbackStores(p) == Len(feedback_stores[p]) > 0

NoCall == [called |-> FALSE]

\* the threads of the server's pool that serve POST /feedback
Handlers == {1, 2}

Idle == [pc |-> "idle"]

\* lazily built objects: the global _feedback_store of api.py and the
\* _embeddings of the store (_feedback_generator, _vectorstores[name] and
\* _llm are built by code of the same shape)
Resources == {"_feedback_store", "_embeddings"}

\* the value None of such a global; instances are numbered from 1
NoInstance == 0

(***************************************************************************)
(* create_feedback_entry, called when the clock shows t.  id is a ghost    *)
(* field telling apart entries that are equal field by field.              *)
(***************************************************************************)
create_feedback_entry(id, t, profile_name, context, feedback_type) ==
    [id |-> id,
     timestamp |-> isoformat(t),
     profile_name |-> profile_name,
     original_context |-> context,
     feedback_type |-> feedback_type]

\* The Document _update_feedback_vectors builds: the page content (whose
\* embedding is the point of the context) and the metadata.
Document(feedback) ==
    [id |-> feedback.id,
     page_content |-> feedback.original_context,
     metadata |-> [profile_name |-> feedback.profile_name,
                   feedback_type |-> feedback.feedback_type,
                   timestamp |-> feedback.timestamp]]

\* the state of a new process over empty feedback directories; Names are
\* the profile names feedback will be stored for
InitOf(Names) ==
    /\ calls = 0
    /\ feedback_file = [p \in Names |-> <<>>]
    /\ vector_disk = [p \in Names |-> <<>>]
    /\ feedback_stores = [p \in Names |-> <<>>]
    /\ reported = {}
    /\ last_store = NoCall
    /\ profile_files = {DEFAULT_FILE}
    /\ vectorstores = {}
    /\ requests = 0
    /\ response = NoCall
    /\ samples = [path \in Paths |->
                     IF path = DEFAULT_FILE THEN <<"s0">> ELSE <<>>]
    /\ style_index = [name \in {} |-> <<>>]
    /\ profile_response = NoCall
    /\ summary_call = NoCall
    /\ prompt_call = NoCall
    /\ handlers = [h \in Handlers |-> Idle]
    /\ shared = [instance |-> [r \in Resources |-> NoInstance],
                 constructed |-> [r \in Resources |-> 0],
                 returned |-> [r \in Resources |-> {}],
                 calls |-> 0]

Init == InitOf(Profiles)

(***************************************************************************)
(* store_feedback.  The environment decides where the call fails, if it    *)
(* does:                                                                   *)
(*   "log"    reading the existing log or opening it for writing raises    *)
(*   "embed"  the embedding call inside add_documents/from_documents       *)
(*            raises, before the index is touched                          *)
(*   "save"   save_local raises, after the in-memory index was updated     *)
(***************************************************************************)
Faults == {"none", "log", "embed", "save"}

\* faulty variant: a failure of the log step goes unnoticed
LogStepNeverRaises(fault) == FALSE

\* lines 89-103: the read-append-rewrite of the JSON log raises
LogStepRaises(fault) == fault = "log"

\* faulty variant: the documents of every profile are put into the store
UpdatedSharedStore(feedback) ==
    LET p == feedback.profile_name
        others == CHOOSE q \in DOMAIN feedback_stores : q # p
    IN  feedback_stores[others] \o feedback_stores[p]
            \o <<Document(feedback)>>

\* lines 136-143: add to the profile's store, or create it from the document
UpdatedStore(feedback) ==
    LET p == feedback.profile_name
        doc == Document(feedback)
    IN  IF InFeedbackStores(p)
        THEN Append(feedback_stores[p], doc)
        ELSE <<doc>>

\* _update_feedback_vectors: every exception is caught and printed
update_feedback_vectors(feedback, fault) ==
    LET p == feedback.profile_name
    IN  CASE fault = "embed" ->
               UNCHANGED <<feedback_stores, vector_disk>>
          [] fault = "save" ->
               /\ feedback_stores' = [feedback_stores EXCEPT ![p] = UpdatedStore(feedback)]
               /\ UNCHANGED vector_disk
          [] OTHER ->
               /\ feedback_stores' = [feedback_stores EXCEPT ![p] = UpdatedStore(feedback)]
               /\ vector_disk' = [vector_disk EXCEPT ![p] = UpdatedStore(feedback)]

\* faulty variant: the except branch returns True as well
StoreResultAlwaysTrue(fault) == TRUE

\* the value store_feedback returns: True at line 107, False at line 111
StoreResult(fault) == ~LogStepRaises(fault)

store_feedback(feedback, fault) ==
    LET p == feedback.profile_name
    IN  /\ IF LogStepRaises(fault)
           THEN UNCHANGED <<feedback_file, feedback_stores, vector_disk>>
           ELSE /\ feedback_file' = [feedback_file EXCEPT ![p] = Append(@, feedback)]
                /\ update_feedback_vectors(feedback, fault)
        /\ reported' = IF StoreResult(fault)
                       THEN reported \cup {feedback} ELSE reported
        /\ last_store' = [called |-> TRUE, entry |-> feedback, fault |-> fault,
                          result |-> StoreResult(fault)]

\* A caller creates an entry (at any earlier clock value) and stores it.
StoreFeedbackIn(P, C, T, Clock, F) ==
    /\ calls < MaxCalls
    /\ \E p \in P, c \in C, ft \in T, t \in Clock, fault \in F :
          store_feedback(create_feedback_entry(calls + 1, t, p, c, ft), fault)
    /\ calls' = calls + 1
    /\ UNCHANGED api_vars
    /\ UNCHANGED client_vars

(***************************************************************************)
(* A new FeedbackMemoryStore over the same directory (a process restart):  *)
(* load_existing_feedback loads the saved index of every profile that has  *)
(* both a log and a saved index; a load that raises leaves the profile     *)
(* without an in-memory index.                                             *)
(***************************************************************************)
Loadable(p) == FileExists(p) /\ VectorStoreExists(p)

load_profile_feedback(p, raises) ==
    IF Loadable(p) /\ ~raises THEN vector_disk[p] ELSE <<>>

Restart ==
    /\ \E failing \in SUBSET {p \in Profiles : Loadable(p)} :
          feedback_stores' =
              [p \in Profiles |-> load_profile_feedback(p, p \in failing)]
    /\ last_store' = NoCall
    /\ UNCHANGED <<calls, feedback_file, vector_disk, reported>>
    /\ UNCHANGED api_vars
    /\ UNCHANGED client_vars

(***************************************************************************)
(* FAISS similarity_search(context, k=n) over a store: up to n documents,  *)
(* nearest first.  Documents at the same distance come in an order the     *)
(* index decides, so every such order is a possible answer.  The call      *)
(* raises when the embedding of the query fails.                           *)
(***************************************************************************)
Abs(x) == IF x < 0 THEN -x ELSE x

\* distance between the embeddings of the query and of the document
Distance(context, doc) == Abs(context - doc.page_content)

\* the ways to list n of the documents at positions `left`, nearest first
RECURSIVE NearestFirst(_, _, _, _)
NearestFirst(store, context, left, n) ==
    IF n = 0 \/ left = {} THEN {<<>>}
    ELSE LET nearest ==
                 {i \in left :
                     \A j \in left : Distance(context, store[i]) <=
                                         Distance(context, store[j])}
         IN  UNION {{<<store[i]>> \o rest :
                        rest \in NearestFirst(store, context, left \ {i}, n - 1)} :
                    i \in nearest}

similarity_search(store, context, n) ==
    NearestFirst(store, context, 1..Len(store), n)

\* what the call at lines 160-162 can do: raise, or return documents
SearchOutcomes(profile_name, context, k) ==
    {[raised |-> TRUE, docs |-> <<>>]} \cup
    {[raised |-> FALSE, docs |-> d] :
        d \in similarity_search(feedback_stores[profile_name], context, k * 2)}

(***************************************************************************)
(* get_relevant_feedback, given what its similarity search did.  The       *)
(* result is the list of {content, metadata} of the final documents.       *)
(***************************************************************************)
get_relevant_feedback(profile_name, feedback_type, k, search) ==
    IF ~InFeedbackStores(profile_name) THEN <<>>
    ELSE IF search.raised THEN <<>>
    ELSE LET TypeMatches(doc) == doc.metadata.feedback_type = feedback_type
             docs == IF feedback_type # NoType
                     THEN SelectSeq(search.docs, TypeMatches)
                     ELSE search.docs
             docs_with_timestamps ==
                 [i \in 1..Len(docs) |-> <<docs[i], docs[i].metadata.timestamp>>]
             sorted == SortDesc(docs_with_timestamps)
             top == Take(sorted, k)
         IN  [i \in 1..Len(top) |-> top[i][1]]

\* whether the call raises: the test at line 155 cannot, and every exception
\* of lines 159-187 is caught (lines 189-191)
RelevantRaises(profile_name, search) == FALSE

\* every list get_relevant_feedback(profile_name, context, feedback_type, k)
\* can return in the current state
RelevantFeedback(profile_name, context, feedback_type, k) ==
    {get_relevant_feedback(profile_name, feedback_type, k, search) :
        search \in SearchOutcomes(profile_name, context, k)}

(***************************************************************************)
(* get_profile_feedback_summary.  raises: reading the log raises.          *)
(***************************************************************************)
RecentLimit == 5

\* faulty variant: a missing or unreadable log is not handled
SummaryRaisesUnhandled(profile_name, raises) ==
    ~FileExists(profile_name) \/ raises

\* whether the call raises: the missing file returns early (lines 230-237)
\* and every exception of the read is caught (lines 269-271)
SummaryRaises(profile_name, raises) == FALSE

EmptySummary ==
    [total_feedback |-> 0, positive |-> 0, negative |-> 0, refinements |-> 0,
     recent_patterns |-> <<>>]

IsPositive(f) == f.feedback_type = "positive"
IsNegative(f) == f.feedback_type = "negative"
\* faulty variant: the refinement count tests the name of the summary key
IsRefinementByKey(f) == f.feedback_type = "refinements"

IsRefinement(f) == f.feedback_type = "refinement"

get_profile_feedback_summary(profile_name, raises) ==
    IF ~FileExists(profile_name) THEN EmptySummary
    ELSE IF raises THEN EmptySummary
    ELSE LET feedback_list == feedback_file[profile_name]
             keyed == [i \in 1..Len(feedback_list) |->
                          <<feedback_list[i], feedback_list[i].timestamp>>]
             recent_feedback == Take(SortDesc(keyed), RecentLimit)
         IN  [total_feedback |-> Len(feedback_list),
              positive |-> Count(feedback_list, IsPositive),
              negative |-> Count(feedback_list, IsNegative),
              refinements |-> Count(feedback_list, IsRefinement),
              recent_patterns |->
                  [i \in 1..Len(recent_feedback) |->
                      [id |-> recent_feedback[i][1].id,
                       feedback_type |-> recent_feedback[i][1].feedback_type,
                       timestamp |-> recent_feedback[i][1].timestamp]]]

\* faulty variant: the call rewrites the log, keeping the recent entries
summary_trims_log(profile_name) ==
    /\ feedback_file' = [feedback_file EXCEPT ![profile_name] =
                            Take(@, RecentLimit)]
    /\ UNCHANGED <<calls, vector_disk, feedback_stores, reported, last_store>>

\* what the call writes: nothing (the file is opened for reading only)
summary_effect(profile_name) == UNCHANGED feedback_vars

\* A caller asks for the summary of a profile.  The call is recorded with
\* the number of store_feedback calls made before it and, when the call
\* before it was the same call with no store_feedback call in between,
\* with the result of that call.
GetSummary ==
    \E profile_name \in Profiles, raises \in BOOLEAN :
        /\ summary_call' =
               [called |-> TRUE, profile_name |-> profile_name,
                raises |-> raises, at_calls |-> calls,
                result |-> get_profile_feedback_summary(profile_name, raises),
                previous |->
                    IF /\ summary_call.called
                       /\ summary_call.profile_name = profile_name
                       /\ summary_call.raises = raises
                       /\ summary_call.at_calls = calls
                    THEN [given |-> TRUE, result |-> summary_call.result]
                    ELSE [given |-> FALSE]]
        /\ summary_effect(profile_name)
        /\ UNCHANGED api_vars
        /\ UNCHANGED <<prompt_call, handlers, shared>>

(***************************************************************************)
(* Generation (api.py).  A generation attempt first gets the profile's     *)
(* style exemplars (get_cached_vectorstore, similarity_search) and then    *)
(* calls the generation client.  The environment decides, per attempt,     *)
(* whether the embedding client raises and what the generation client      *)
(* does: raise, return whitespace only, or return a post.                  *)
(***************************************************************************)
MaxRequests == 2     \* generation requests in one run
MaxSamples == 2      \* sample texts in one sample file

StyleProfiles == {Default, Work}

EmbedOutcomes == {"ok", "raise"}
LlmOutcomes == {"raise", "blank", "post"}
AttemptEnvs == [embed : EmbedOutcomes, llm : LlmOutcomes]

\* Python values a generation function hands back
None == "<None>"
EmptyText == ""
PostText == "post"

Raised(error, cache) == [raised |-> TRUE, error |-> error, cache |-> cache]
Returned(value, cache) == [raised |-> FALSE, value |-> value, cache |-> cache]

\* get_cached_vectorstore followed by similarity_search(context, k=2), with
\* `cache` the keys of _vectorstores: load_vectorstore raises for a missing
\* file, the embedding client may raise while the index is built or
\* queried, and a built index is cached.  (Lines 207-208 and 217-218 need
\* a sample file without text; sample files here have text.)
StyleExamples(profile, cache, embed) ==
    IF profile \notin cache /\ get_profile_file(profile) \notin profile_files
    THEN Raised("FileNotFoundError", cache)
    ELSE IF embed = "raise"
    THEN Raised("EmbeddingError", cache)
    ELSE Returned("examples", cache \cup {profile})

\* chain.invoke(...) followed by result.strip()
InvokeAndStrip(llm, cache) ==
    CASE llm = "raise" -> Raised("GenerationClientError", cache)
      [] llm = "blank" -> Returned(EmptyText, cache)
      [] OTHER -> Returned(PostText, cache)

generate_post(profile, cache, env) ==
    LET examples == StyleExamples(profile, cache, env.embed)
    IN  IF examples.raised THEN examples
        ELSE InvokeAndStrip(env.llm, examples.cache)

\* FeedbackEnhancedGenerator.generate_with_feedback: the prompt is built
\* (get_relevant_feedback never raises), the client is invoked, and any
\* exception is caught and turned into None
generate_with_feedback(env, cache) ==
    LET result == InvokeAndStrip(env.llm, cache)
    IN  IF result.raised THEN Returned(None, cache) ELSE result

\* not result
Falsy(value) == value \in {None, EmptyText}

\* faulty variant: the result of the feedback-aware attempt is returned unchecked
generate_post_with_feedback_unchecked(profile, cache, fb, plain) ==
    LET examples == StyleExamples(profile, cache, fb.embed)
    IN  IF examples.raised
        THEN generate_post(profile, examples.cache, plain)
        ELSE generate_with_feedback(fb, examples.cache)

\* fb: the environment of the feedback-aware attempt; plain: that of the
\* fallback attempt, if it comes to it
generate_post_with_feedback(profile, cache, fb, plain) ==
    LET examples == StyleExamples(profile, cache, fb.embed)
        result == generate_with_feedback(fb, examples.cache)
    IN  IF examples.raised
        THEN generate_post(profile, examples.cache, plain)
        ELSE IF Falsy(result.value)
        THEN generate_post(profile, result.cache, plain)
        ELSE result

\* the try block of generate_post_with_feedback (lines 232-250): what the
\* feedback-aware attempt itself returns or raises
feedback_attempt(profile, cache, fb) ==
    LET examples == StyleExamples(profile, cache, fb.embed)
        result == generate_with_feedback(fb, examples.cache)
    IN  IF examples.raised THEN examples
        ELSE IF Falsy(result.value)
        THEN Raised("ValueError: Failed to generate post", result.cache)
        ELSE result

\* POST /generate.  env: the environments of the feedback-aware attempt,
\* of the fallback inside generate_post_with_feedback and of the fallback
\* of the handler.
api_generate(profile, env) ==
    LET first == generate_post_with_feedback(profile, vectorstores,
                                             env[1], env[2])
        second == generate_post(profile, first.cache, env[3])
    IN  IF ~first.raised
        THEN [status |-> 200, result |-> first.value, cache |-> first.cache]
        ELSE IF ~second.raised
        THEN [status |-> 200, result |-> second.value, cache |-> second.cache]
        ELSE [status |-> 500,
              detail |-> <<"Generation failed", first.error, second.error>>,
              cache |-> second.cache]

\* POST /regenerate
api_regenerate_with_feedback(profile, env) ==
    LET post == generate_post_with_feedback(profile, vectorstores,
                                            env[1], env[2])
    IN  IF ~post.raised
        THEN [status |-> 200, result |-> post.value, cache |-> post.cache]
        ELSE [status |-> 500, detail |-> <<post.error>>, cache |-> post.cache]

ServeRequest(endpoint, profile, env, answer) ==
    /\ requests < MaxRequests
    /\ requests' = requests + 1
    /\ vectorstores' = answer.cache
    /\ style_index' =
           [name \in answer.cache |->
               IF name \in vectorstores
               THEN style_index[name]
               ELSE samples[get_profile_file(name)]]
    /\ response' = [called |-> TRUE, endpoint |-> endpoint,
                    profile |-> profile,
                    had_file |-> get_profile_file(profile) \in profile_files,
                    env |-> env, answer |-> [x \in DOMAIN answer \ {"cache"} |->
                                                answer[x]]]
    /\ UNCHANGED <<profile_files, samples, profile_response>>
    /\ UNCHANGED feedback_vars

Serve(endpoint, profile, env, answer) ==
    /\ ServeRequest(endpoint, profile, env, answer)
    /\ UNCHANGED client_vars

ApiGenerate ==
    \E profile \in StyleProfiles, env \in [1..3 -> AttemptEnvs] :
        Serve("/generate", profile, env, api_generate(profile, env))

ApiRegenerate ==
    \E profile \in StyleProfiles, env \in [1..2 -> AttemptEnvs] :
        Serve("/regenerate", profile, env,
              api_regenerate_with_feedback(profile, env))

ProfileResponse(endpoint, name, status) ==
    [called |-> TRUE, endpoint |-> endpoint, name |-> name,
     path |-> get_profile_file(name), before |-> samples[get_profile_file(name)],
     status |-> status]

\* faulty variant: the file is written whether or not it exists
CreateNeverRejects(path) == FALSE

\* os.path.exists(path) of api_create_profile
CreateRejects(path) == path \in profile_files

\* POST /profiles: 400 when the file exists, else the samples are written
api_create_profile(name, text) ==
    LET path == get_profile_file(name)
    IN  /\ IF CreateRejects(path)
           THEN /\ UNCHANGED <<profile_files, samples>>
                /\ profile_response' = ProfileResponse("POST /profiles", name, 400)
           ELSE /\ profile_files' = profile_files \cup {path}
                /\ samples' = [samples EXCEPT ![path] = <<text>>]
                /\ profile_response' = ProfileResponse("POST /profiles", name, 200)
        /\ UNCHANGED <<vectorstores, style_index, requests, response>>
        /\ UNCHANGED feedback_vars
        /\ UNCHANGED client_vars

ApiCreateProfileIn(Names, Texts) ==
    \E name \in Names, text \in Texts : api_create_profile(name, text)

ApiCreateProfile == ApiCreateProfileIn(StyleProfiles, {"s1"})

\* POST /profiles/{name}/samples: 404 when the file is missing, else the
\* samples are written at the end of the file (save_samples, mode "a")
api_append_samples(name, text) ==
    LET path == get_profile_file(name)
    IN  /\ IF path \notin profile_files
           THEN /\ UNCHANGED samples
                /\ profile_response' =
                       ProfileResponse("POST /profiles/{name}/samples", name, 404)
           ELSE /\ samples' = [samples EXCEPT ![path] = Append(@, text)]
                /\ profile_response' =
                       ProfileResponse("POST /profiles/{name}/samples", name, 200)
        /\ UNCHANGED <<profile_files, vectorstores, style_index, requests,
                       response>>
        /\ UNCHANGED feedback_vars
        /\ UNCHANGED client_vars

ApiAppendSamples ==
    \E name \in RequestNames, text \in SampleTexts :
        /\ Len(samples[get_profile_file(name)]) < MaxSamples
        /\ api_append_samples(name, text)

\* the orders os.listdir(PROFILES_DIR) can give the stems of the .txt files
ListDir ==
    LET stems == {path.stem : path \in {f \in profile_files :
                                           f.dir = PROFILES_DIR}}
    IN  {order \in [1..Cardinality(stems) -> stems] : Range(order) = stems}

\* list_profiles: "default" and then the stems of the .txt files of
\* PROFILES_DIR as listdir gives them; every name whose file exists gets a
\* row with the number of its samples and the summary of the feedback
\* stored under that name
list_profiles(listdir) ==
    LET profiles == <<Default>> \o listdir
        Exists(p) == get_profile_file(p) \in profile_files
        listed == SelectSeq(profiles, Exists)
    IN  [i \in 1..Len(listed) |->
            LET p == listed[i]
                feedback_summary == get_profile_feedback_summary(p, FALSE)
            IN  [name |-> p,
                 sampleCount |-> Len(samples[get_profile_file(p)]),
                 feedbackCount |-> feedback_summary.total_feedback,
                 learningScore |-> feedback_summary.positive -
                                       feedback_summary.negative]]

\* GET /profiles
ApiListProfiles ==
    /\ \E listdir \in ListDir :
          profile_response' = [called |-> TRUE, endpoint |-> "GET /profiles",
                               at_calls |-> calls,
                               result |-> list_profiles(listdir)]
    /\ UNCHANGED <<profile_files, vectorstores, requests, response, samples,
                   style_index>>
    /\ UNCHANGED feedback_vars
    /\ UNCHANGED client_vars

\* POST /feedback, with the profile name as the request spells it
ApiSubmitFeedback ==
    StoreFeedbackIn(RequestNames, {0}, {"positive", "negative"}, {0}, {"none"})

\* a generation request all of whose calls succeed
NoFaults == [i \in 1..3 |-> [embed |-> "ok", llm |-> "post"]]

ApiGenerateNoFaults ==
    \E profile \in RequestNames :
        Serve("/generate", profile, NoFaults, api_generate(profile, NoFaults))

(***************************************************************************)
(* The prompts.  The feedback block of the feedback-aware prompt is a      *)
(* sequence of parts: a heading, one section for each kind of feedback     *)
(* that was retrieved, and a closing directive.  An item of a section      *)
(* stands for the text parsed out of the retrieved document and is named   *)
(* by the id of the document.                                              *)
(***************************************************************************)
PromptK == 2

Part(title, feedback_list) ==
    [title |-> title,
     items |-> [i \in 1..Len(feedback_list) |-> feedback_list[i].id]]

\* faulty variant: the heading of a section is written for an empty list too
SectionAlways(title, feedback_list) == <<Part(title, feedback_list)>>

\* `if positive_feedback:` and the loop under it (lines 308-313, 315-320,
\* 322-331)
Section(title, feedback_list) ==
    IF feedback_list = <<>> THEN <<>> ELSE <<Part(title, feedback_list)>>

\* lines 303-333: feedback_context
feedback_context(positive_feedback, negative_feedback, refinement_feedback) ==
    IF /\ positive_feedback = <<>>
       /\ negative_feedback = <<>>
       /\ refinement_feedback = <<>>
    THEN <<>>
    ELSE <<Part("Based on previous user feedback", <<>>)>>
         \o Section("POSITIVE PATTERNS TO FOLLOW", positive_feedback)
         \o Section("NEGATIVE PATTERNS TO AVOID", negative_feedback)
         \o Section("REFINEMENT SUGGESTIONS TO CONSIDER", refinement_feedback)
         \o <<Part("IMPORTANT", <<>>)>>

\* the three retrievals of create_feedback_aware_prompt (lines 292-300),
\* given what the similarity search of each did
retrieve(profile_name, searches) ==
    [kind \in Kinds |->
        get_relevant_feedback(profile_name, kind, PromptK, searches[kind])]

\* create_feedback_aware_prompt: the feedback block of the template
create_feedback_aware_prompt(profile_name, searches) ==
    LET retrieved == retrieve(profile_name, searches)
    IN  feedback_context(retrieved["positive"], retrieved["negative"],
                         retrieved["refinement"])

\* The searches one prompt assembly can see: the three calls put the same
\* query to the same index, so those that return return the same documents.
PromptSearches(profile_name, context) ==
    {[kind \in Kinds |->
         IF kind \in failing THEN [raised |-> TRUE, docs |-> <<>>]
         ELSE [raised |-> FALSE, docs |-> docs]] :
     failing \in SUBSET Kinds,
     docs \in similarity_search(feedback_stores[profile_name], context,
                                PromptK * 2)}

(***************************************************************************)
(* The text of an indexed document and its parsing.  A text is the         *)
(* sequence of its tokens: words, the blank, the newline, and the labels   *)
(* "Feedback:" and "Refinement:" where a text holds these characters.      *)
(***************************************************************************)
\* the fields of a feedback entry that hold what the user or the model wrote
PlainTexts == {<<"good">>, <<"too", " ", "long">>}
LabelledTexts ==
    {<<"launch">>, <<"Feedback:", " ", "launch">>,
     <<"Refinement:", " ", "launch">>}

TextEntries ==
    [original_context : LabelledTexts,
     original_instruction : LabelledTexts,
     generated_post : LabelledTexts,
     feedback_type : Kinds,
     feedback_text : PlainTexts,
     refinement_instruction : PlainTexts \cup {<<>>}]

\* lines 117-127: the f-string of _update_feedback_vectors, stripped
feedback_content(feedback) ==
    strip(<<"\n", " ", "Context:", " ">> \o feedback.original_context
          \o <<"\n", " ", "Instruction:", " ">> \o feedback.original_instruction
          \o <<"\n", " ", "Generated:", " ">> \o feedback.generated_post
          \o <<"\n", " ", "Feedback Type:", " ", feedback.feedback_type>>
          \o <<"\n", " ", "Feedback:", " ">> \o feedback.feedback_text
          \o <<"\n", " ", "Refinement:", " ">>
          \o feedback.refinement_instruction
          \o <<"\n", " ">>)

\* sep in text
Contains(text, sep) == \E i \in 1..Len(text) : text[i] = sep

\* text.split(sep)
RECURSIVE split(_, _)
split(text, sep) ==
    IF ~Contains(text, sep) THEN <<text>>
    ELSE LET i == CHOOSE i \in 1..Len(text) :
                      /\ text[i] = sep
                      /\ \A j \in 1..(i - 1) : text[j] # sep
         IN  <<SubSeq(text, 1, i - 1)>>
             \o split(SubSeq(text, i + 1, Len(text)), sep)

UnknownFeedback == <<"Unknown feedback">>

\* next((line.split('Feedback:')[1].strip() for line in lines
\*       if 'Feedback:' in line), 'Unknown feedback')     (lines 311-312)
parse_feedback_text(content) ==
    LET lines == split(content, "\n")
        HasLabel(line) == Contains(line, "Feedback:")
        labelled == SelectSeq(lines, HasLabel)
    IN  IF labelled = <<>> THEN UnknownFeedback
        ELSE strip(split(labelled[1], "Feedback:")[2])

\* next((line.split('Refinement:')[1].strip() for line in lines
\*       if 'Refinement:' in line and line.split('Refinement:')[1].strip()),
\*      None)                                              (line 327)
parse_refinement_text(content) ==
    LET lines == split(content, "\n")
        HasText(line) == /\ Contains(line, "Refinement:")
                         /\ strip(split(line, "Refinement:")[2]) # <<>>
        labelled == SelectSeq(lines, HasText)
    IN  IF labelled = <<>> THEN [found |-> FALSE]
        ELSE [found |-> TRUE,
              text |-> strip(split(labelled[1], "Refinement:")[2])]

\* An entry is indexed and its document, once retrieved, is parsed for the
\* prompt.
IndexAndParse ==
    \E feedback \in TextEntries :
        /\ prompt_call' =
               [called |-> TRUE,
                entry |-> feedback,
                content |-> feedback_content(feedback),
                feedback_text |->
                    parse_feedback_text(feedback_content(feedback)),
                refinement_text |->
                    parse_refinement_text(feedback_content(feedback))]
        /\ UNCHANGED feedback_vars
        /\ UNCHANGED api_vars
        /\ UNCHANGED <<summary_call, handlers, shared>>

\* A caller assembles the feedback-aware prompt for a profile.
CreatePrompt ==
    \E profile_name \in {"p"}, context \in {0} :
        \E searches \in PromptSearches(profile_name, context) :
            /\ prompt_call' =
                   [called |-> TRUE,
                    profile_name |-> profile_name,
                    searched |-> InFeedbackStores(profile_name),
                    failed |-> {kind \in Kinds : searches[kind].raised},
                    retrieved |-> retrieve(profile_name, searches),
                    feedback_context |->
                        create_feedback_aware_prompt(profile_name, searches)]
            /\ UNCHANGED feedback_vars
            /\ UNCHANGED api_vars
            /\ UNCHANGED <<summary_call, handlers, shared>>

\* the instruction field of a request: empty, or a text
Instructions == {"", "be brief"}

\* `instruction or "..."`
custom_instruction(instruction, default) ==
    IF instruction = "" THEN default ELSE instruction

\* what generate_post hands to chain.invoke (lines 220-227)
plain_invoke(style_examples, context, instruction) ==
    [template |-> "build_prompt",
     style_examples |-> style_examples,
     context |-> context,
     custom_instruction |-> custom_instruction(instruction, "Write naturally."),
     feedback_context |-> <<>>]

\* what generate_with_feedback hands to chain.invoke (lines 366-378)
feedback_invoke(style_examples, context, instruction, profile_name, searches) ==
    [template |-> "create_feedback_aware_prompt",
     style_examples |-> style_examples,
     context |-> context,
     custom_instruction |->
         custom_instruction(instruction, "Write in your authentic style."),
     feedback_context |-> create_feedback_aware_prompt(profile_name, searches)]

\* the calls of the generation client a /generate request makes, in order:
\* an attempt calls the client when it got its style exemplars, the
\* fallback of generate_post_with_feedback runs when the feedback-aware
\* attempt failed and the fallback of the handler when that one raised
invocations(profile, context, instruction, env, searches) ==
    LET style_examples == IF profile \in vectorstores
                          THEN style_index[profile]
                          ELSE samples[get_profile_file(profile)]
        attempt == feedback_attempt(profile, vectorstores, env[1])
        inner == StyleExamples(profile, attempt.cache, env[2].embed)
        first == generate_post_with_feedback(profile, vectorstores,
                                             env[1], env[2])
        outer == StyleExamples(profile, first.cache, env[3].embed)
    IN  (IF StyleExamples(profile, vectorstores, env[1].embed).raised
         THEN <<>>
         ELSE <<feedback_invoke(style_examples, context, instruction,
                                profile, searches)>>)
        \o (IF attempt.raised /\ ~inner.raised
            THEN <<plain_invoke(style_examples, context, instruction)>>
            ELSE <<>>)
        \o (IF first.raised /\ ~outer.raised
            THEN <<plain_invoke(style_examples, context, instruction)>>
            ELSE <<>>)

\* environments in which the two plain attempts fare alike
PlainAlike == {env \in [1..3 -> AttemptEnvs] : env[2] = env[3]}

\* The first POST /generate of the process, recorded with the prompts it
\* sent to the generation client
ApiGenerateRecorded ==
    \E instruction \in Instructions, env \in PlainAlike :
        \E searches \in PromptSearches(Default, 0) :
            /\ requests = 0
            /\ ServeRequest("/generate", Default, env,
                            api_generate(Default, env))
            /\ prompt_call' =
                   [called |-> TRUE,
                    profile_name |-> Default,
                    instruction |-> instruction,
                    retrieval_failed |->
                        /\ InFeedbackStores(Default)
                        /\ \E kind \in Kinds : searches[kind].raised,
                    retrieved |-> retrieve(Default, searches),
                    invocations |->
                        invocations(Default, 0, instruction, env, searches)]
            /\ UNCHANGED <<summary_call, handlers, shared>>

MaxFeedback == 2     \* store_feedback calls in the runs that need few

\* POST /feedback for the profile "default"
SubmitDefaultFeedback ==
    /\ calls < MaxFeedback
    /\ StoreFeedbackIn({Default}, {0}, Kinds, {0}, {"none"})

(***************************************************************************)
(* POST /feedback on the threads of the server's pool (the handlers are    *)
(* plain `def` functions and nothing locks the log): store_feedback reads  *)
(* the log in one step and writes it back in a later one, and another      *)
(* handler may run in between.                                             *)
(***************************************************************************)
\* lines 354-362 of api.py and 89-95 of store_feedback: the entry is
\* created and the existing log is read into feedback_list
HandlerLoad(h) ==
    /\ calls < MaxCalls
    /\ handlers[h].pc = "idle"
    /\ \E p \in Profiles, ft \in Kinds :
          handlers' = [handlers EXCEPT ![h] =
              [pc |-> "loaded",
               feedback |-> create_feedback_entry(calls + 1, 0, p, 0, ft),
               feedback_list |-> feedback_file[p]]]
    /\ calls' = calls + 1
    /\ UNCHANGED <<feedback_file, vector_disk, feedback_stores, reported,
                   last_store>>
    /\ UNCHANGED api_vars
    /\ UNCHANGED <<summary_call, prompt_call, shared>>

\* faulty variant: the entry is added to the log as it is at the write
saved_list_reread(h) ==
    Append(feedback_file[handlers[h].feedback.profile_name],
           handlers[h].feedback)

\* lines 98-103: the list read earlier, with the new entry, is what
\* json.dump writes over the file
saved_list(h) == Append(handlers[h].feedback_list, handlers[h].feedback)

\* lines 97-107: the list with the new entry is written over the log, the
\* index is updated and True is returned
HandlerSave(h) ==
    /\ handlers[h].pc = "loaded"
    /\ LET feedback == handlers[h].feedback
           p == feedback.profile_name
       IN  /\ feedback_file' = [feedback_file EXCEPT ![p] = saved_list(h)]
           /\ update_feedback_vectors(feedback, "none")
           /\ reported' = reported \cup {feedback}
           /\ last_store' = [called |-> TRUE, entry |-> feedback,
                             fault |-> "none", result |-> TRUE]
    /\ handlers' = [handlers EXCEPT ![h] = Idle]
    /\ UNCHANGED calls
    /\ UNCHANGED api_vars
    /\ UNCHANGED <<summary_call, prompt_call, shared>>

(***************************************************************************)
(* Lazy construction of the shared objects, as each getter does it:        *)
(*     if X is None: X = Construct()                                       *)
(*     return X                                                            *)
(* The test, the construction with its assignment and the return are       *)
(* separate steps of a handler's thread; the constructors do file and      *)
(* network I/O, during which other threads run.                            *)
(***************************************************************************)
MaxGets == 3         \* calls of the getters in one run

\* `if _feedback_store is None` (api.py line 30; lines 37, 44, and lines
\* 48 and 283 of feedback_system.py)
LazyTest(h) ==
    /\ shared.calls < MaxGets
    /\ handlers[h].pc = "idle"
    /\ \E r \in Resources :
          handlers' = [handlers EXCEPT ![h] =
              [pc |-> IF shared.instance[r] = NoInstance
                      THEN "construct" ELSE "return",
               resource |-> r]]
    /\ shared' = [shared EXCEPT !.calls = @ + 1]
    /\ UNCHANGED feedback_vars
    /\ UNCHANGED api_vars
    /\ UNCHANGED <<summary_call, prompt_call>>

\* `_feedback_store = FeedbackMemoryStore(PROFILES_DIR)` (line 31)
LazyConstruct(h) ==
    /\ handlers[h].pc = "construct"
    /\ LET r == handlers[h].resource
           new == shared.constructed[r] + 1
       IN  shared' = [shared EXCEPT !.constructed[r] = new,
                                    !.instance[r] = new]
    /\ handlers' = [handlers EXCEPT ![h].pc = "return"]
    /\ UNCHANGED feedback_vars
    /\ UNCHANGED api_vars
    /\ UNCHANGED <<summary_call, prompt_call>>

\* `return _feedback_store` (line 32): the global is read again
LazyReturn(h) ==
    /\ handlers[h].pc = "return"
    /\ LET r == handlers[h].resource
       IN  shared' = [shared EXCEPT !.returned[r] = @ \cup {shared.instance[r]}]
    /\ handlers' = [handlers EXCEPT ![h] = Idle]
    /\ UNCHANGED feedback_vars
    /\ UNCHANGED api_vars
    /\ UNCHANGED <<summary_call, prompt_call>>

(***************************************************************************)
(* Specifications.  Spec stores feedback of every type for both profiles   *)
(* and restarts the store; RetrievalSpec fills the index of one profile    *)
(* with feedback of different contexts and timestamps.                     *)
(***************************************************************************)
StoreFeedback == StoreFeedbackIn(Profiles, {0}, FeedbackTypes, {0}, Faults)

Next ==
    \/ StoreFeedback
    \/ Restart

Spec == Init /\ [][Next]_vars

StoreFeedbackOfP == StoreFeedbackIn({"p"}, Contexts, {"positive", "negative"}, Times,
                    {"none"})

RetrievalNext == StoreFeedbackOfP

RetrievalSpec == Init /\ [][RetrievalNext]_vars

GenerationNext ==
    \/ ApiCreateProfile
    \/ ApiGenerate
    \/ ApiRegenerate

GenerationSpec == Init /\ [][GenerationNext]_vars

ProfilesNext ==
    \/ ApiCreateProfileIn(RequestNames, SampleTexts)
    \/ ApiAppendSamples
    \/ ApiGenerateNoFaults

ProfilesSpec == Init /\ [][ProfilesNext]_vars

ListingNext ==
    \/ ApiCreateProfileIn({Work}, {"s1"})
    \/ ApiSubmitFeedback
    \/ ApiListProfiles

ListingInit == InitOf(RequestNames)

ListingSpec == ListingInit /\ [][ListingNext]_vars

\* profiles are created under every spelling, appended to and listed
CreationNext ==
    \/ ApiCreateProfileIn(CreationNames, SampleTexts)
    \/ ApiAppendSamples
    \/ ApiListProfiles

CreationSpec == ListingInit /\ [][CreationNext]_vars

\* a log longer than the summary's recent_patterns
StoreFeedbackUpTo(limit, P, C, T, Clock, F) ==
    /\ calls < limit
    /\ \E p \in P, c \in C, ft \in T, t \in Clock, fault \in F :
          store_feedback(create_feedback_entry(calls + 1, t, p, c, ft), fault)
    /\ calls' = calls + 1
    /\ UNCHANGED api_vars
    /\ UNCHANGED client_vars

LogFeedback == StoreFeedbackUpTo(MaxLog, {"p"}, {0}, {"positive"}, Times, {"none"})

SummaryNext ==
    \/ LogFeedback
    \/ GetSummary

SummarySpec == Init /\ [][SummaryNext]_vars

ConcurrentNext ==
    \E h \in Handlers :
        \/ HandlerLoad(h)
        \/ HandlerSave(h)

ConcurrentSpec == Init /\ [][ConcurrentNext]_vars

RecordedNext ==
    \/ SubmitDefaultFeedback
    \/ ApiGenerateRecorded

RecordedSpec == ListingInit /\ [][RecordedNext]_vars

MaxIndexed == 3      \* feedback entries stored before a prompt is assembled

\* feedback of the three kinds for one profile
StoreThreeKinds ==
    StoreFeedbackUpTo(MaxIndexed, {"p"}, {0}, Kinds, {0}, {"none"})

PromptNext ==
    \/ StoreThreeKinds
    \/ CreatePrompt

PromptSpec == Init /\ [][PromptNext]_vars

ParseNext == IndexAndParse

ParseSpec == Init /\ [][ParseNext]_vars

\* feedback for both profiles, with every fault, and restarts
StoreForEither ==
    StoreFeedbackUpTo(MaxFeedback, Profiles, Contexts, {"positive"}, {0},
                      Faults)

IsolationNext ==
    \/ StoreForEither
    \/ Restart

IsolationSpec == Init /\ [][IsolationNext]_vars

LazyNext ==
    \E h \in Handlers :
        \/ LazyTest(h)
        \/ LazyConstruct(h)
        \/ LazyReturn(h)

LazySpec == Init /\ [][LazyNext]_vars

\* store_feedback keeps being called and the store keeps being restarted;
\* nothing else runs (the code has no background task)
FairSpec == Spec /\ WF_vars(Next)

(***************************************************************************)
(* Vocabulary of the claims.                                               *)
(***************************************************************************)
QueryTypes == FeedbackTypes \cup {NoType}

Ks == (1..MaxK) \cup {ApiK}

\* the inverse of isoformat: the clock value a timestamp was taken at
fromisoformat(ts) ==
    ts[1] * UsecPerSec + (IF Len(ts) > 1 THEN ts[2] ELSE 0)

EntriesOf(p) == Range(feedback_file[p])

ReportedFor(p) == {e \in reported : e.profile_name = p}

ReportedOfType(p, ft) == {e \in ReportedFor(p) : e.feedback_type = ft}

InLog(e) == e \in Range(feedback_file[e.profile_name])

InMemoryIndex(e) == Document(e) \in Range(feedback_stores[e.profile_name])

InSavedIndex(e) == Document(e) \in Range(vector_disk[e.profile_name])

AllEntries == UNION {EntriesOf(p) : p \in Profiles}

\* C1: for every profile whose log holds only entries of the three kinds,
\* the summary's total_feedback is the sum of its positive, negative and
\* refinements counts (whether or not reading the log raises).
C1_TotalIsSumOfKinds ==
    \A p \in Profiles, raises \in BOOLEAN :
        (\A e \in EntriesOf(p) : e.feedback_type \in Kinds) =>
            LET s == get_profile_feedback_summary(p, raises)
            IN  s.total_feedback = s.positive + s.negative + s.refinements

C1_Witness ==
    \E p \in Profiles :
        /\ \A e \in EntriesOf(p) : e.feedback_type \in Kinds
        /\ get_profile_feedback_summary(p, FALSE).total_feedback = 3
        /\ get_profile_feedback_summary(p, FALSE).positive = 2
        /\ get_profile_feedback_summary(p, FALSE).refinements = 1

\* C2: for every profile, the summary read from the log reports as
\* total_feedback the number of store_feedback calls for that profile that
\* reported success, and as positive, negative and refinements the number
\* of those calls of each kind.
C2_SummaryCountsCalls ==
    \A p \in Profiles :
        LET s == get_profile_feedback_summary(p, FALSE)
        IN  /\ s.total_feedback = Cardinality(ReportedFor(p))
            /\ s.positive = Cardinality(ReportedOfType(p, "positive"))
            /\ s.negative = Cardinality(ReportedOfType(p, "negative"))
            /\ s.refinements = Cardinality(ReportedOfType(p, "refinement"))

C2_Witness ==
    /\ Cardinality(reported) = calls
    /\ \E p \in Profiles :
          LET s == get_profile_feedback_summary(p, FALSE)
          IN  /\ s.total_feedback = 3
              /\ s.positive = 1
              /\ s.negative = 1
              /\ s.refinements = 1

\* C3: when the last store_feedback call reported success, its entry is in
\* the profile's log and in the profile's index (in memory and saved), and
\* a call whose embedding or index-update step failed did not report
\* success.
C3_SuccessMeansLoggedAndIndexed ==
    last_store.called =>
        /\ last_store.result =>
              /\ InLog(last_store.entry)
              /\ InMemoryIndex(last_store.entry)
              /\ InSavedIndex(last_store.entry)
        /\ last_store.fault \in {"embed", "save"} => ~last_store.result

\* C4: every entry of a profile's log is eventually in that profile's
\* index, in memory or saved.
C4_EventuallyIndexed ==
    \A id \in 1..MaxCalls :
        (\E e \in AllEntries : e.id = id)
            ~> (\E e \in AllEntries :
                   e.id = id /\ (InMemoryIndex(e) \/ InSavedIndex(e)))

\* what the code does instead: an entry that is in the log and in neither
\* index stays out of both, whatever is called next
C4_NeverReindexed ==
    [][\A e \in AllEntries :
          ~(InMemoryIndex(e) \/ InSavedIndex(e)) =>
              ~(InMemoryIndex(e) \/ InSavedIndex(e))']_vars

\* the stored entry is the nearest neighbour of the query: every other
\* entry of the profile's log is strictly farther from it
NearestNeighbour(e, context) ==
    \A f \in EntriesOf(e.profile_name) :
        f.id # e.id =>
            Distance(context, Document(e)) < Distance(context, Document(f))

\* C5: right after a store_feedback call that reported success, every
\* get_relevant_feedback for the same profile with k = 1 and a query whose
\* nearest neighbour is the stored entry returns a list containing it.
C5_StoredEntryIsRetrieved ==
    (last_store.called /\ last_store.result) =>
        LET e == last_store.entry
        IN  \A c \in Contexts :
                NearestNeighbour(e, c) =>
                    \A search \in SearchOutcomes(e.profile_name, c, 1) :
                        ~search.raised =>
                            Document(e) \in
                                Range(get_relevant_feedback(
                                          e.profile_name, NoType, 1, search))

\* C6: every list get_relevant_feedback can return is ordered by timestamp
\* descending: an entry created later never comes after one created earlier.
C6_NewestFirst ==
    \A p \in Profiles, c \in Contexts, k \in Ks :
        \A search \in SearchOutcomes(p, c, k), ft \in QueryTypes :
            \A r \in {get_relevant_feedback(p, ft, k, search)} :
                \A i, j \in 1..Len(r) :
                    i < j =>
                        fromisoformat(r[i].metadata.timestamp) >=
                            fromisoformat(r[j].metadata.timestamp)

\* a search that returned an older document first and a result that put the
\* newer one first
C6_Witness ==
    \E c \in Contexts :
        \E search \in SearchOutcomes("p", c, 1) :
            /\ ~search.raised
            /\ Len(search.docs) = 2
            /\ StrLess(search.docs[1].metadata.timestamp,
                       search.docs[2].metadata.timestamp)
            /\ LET r == get_relevant_feedback("p", NoType, 2, search)
               IN  /\ Len(r) = 2
                   /\ r[1] = search.docs[2]
                   /\ r[2] = search.docs[1]

\* d is among the n nearest neighbours of the query in the store: fewer
\* than n documents of the store are strictly nearer
AmongNearest(store, context, n, d) ==
    /\ d \in Range(store)
    /\ Cardinality({x \in Range(store) :
                       Distance(context, x) < Distance(context, d)}) < n

MatchesType(doc, ft) == ft = NoType \/ doc.metadata.feedback_type = ft

\* the general statement of C7
C7_FilteredRecentTopK ==
    \A p \in Profiles, c \in Contexts, k \in Ks :
        \A search \in SearchOutcomes(p, c, k), ft \in QueryTypes :
            \A r \in {Range(get_relevant_feedback(p, ft, k, search))} :
                LET matching == {d \in Range(search.docs) : MatchesType(d, ft)}
                IN  /\ \A d \in r : MatchesType(d, ft)
                    /\ \A d \in r :
                           AmongNearest(feedback_stores[p], c, 2 * k, d)
                    /\ Cardinality(r) = Min(k, Cardinality(matching))
                    /\ Len(get_relevant_feedback(p, ft, k, search)) =
                           Cardinality(r)
                    /\ \A d \in matching \ r :
                           \A x \in r :
                               ~StrLess(x.metadata.timestamp,
                                        d.metadata.timestamp)

\* three documents in the index, a positive query with k = 1 whose two
\* candidates are both positive, and the older candidate left out
C7_Witness ==
    /\ Len(feedback_stores["p"]) = 3
    /\ \E c \in Contexts :
          \E search \in SearchOutcomes("p", c, 1) :
              LET r == get_relevant_feedback("p", "positive", 1, search)
              IN  /\ ~search.raised
                  /\ \A d \in Range(search.docs) :
                         d.metadata.feedback_type = "positive"
                  /\ Len(r) = 1
                  /\ \E d \in Range(search.docs) :
                         StrLess(d.metadata.timestamp, r[1].metadata.timestamp)
                  /\ \E d \in Range(feedback_stores["p"]) :
                         d \notin Range(search.docs)

\* the scenario of C7: over an index of two positive documents and one
\* negative one, a positive query with k = 5 returns at most 2 documents,
\* all positive
C7_Scenario ==
    \A p \in Profiles, c \in Contexts :
        LET store == feedback_stores[p]
            Positive(d) == d.metadata.feedback_type = "positive"
            Negative(d) == d.metadata.feedback_type = "negative"
        IN  (Len(store) = 3 /\ Count(store, Positive) = 2
                /\ Count(store, Negative) = 1) =>
                \A r \in RelevantFeedback(p, c, "positive", ApiK) :
                    /\ Len(r) <= 2
                    /\ \A d \in Range(r) : Positive(d)

\* C7: whatever the similarity search did, get_relevant_feedback returns
\* only documents of the requested kind, only documents among the 2k
\* nearest neighbours of the query in the profile's index, exactly
\* min(k, number of kind-matching candidates) of them, no document twice,
\* and no kind-matching candidate left out is newer than a returned one;
\* and over two positive documents and a negative one a positive query
\* with k = 5 returns at most 2 documents, all positive.
C7_RelevantFeedback == C7_FilteredRecentTopK /\ C7_Scenario

\* C8: for a profile with nothing stored (no log, no saved index), neither
\* read raises, get_relevant_feedback returns the empty list and the
\* summary is all-zero with no recent patterns.
C8_EmptyProfileReads ==
    \A p \in Profiles :
        (~FileExists(p) /\ ~VectorStoreExists(p)) =>
            /\ \A c \in Contexts, ft \in QueryTypes, k \in Ks :
                   \A search \in SearchOutcomes(p, c, k) :
                       /\ ~RelevantRaises(p, search)
                       /\ get_relevant_feedback(p, ft, k, search) = <<>>
            /\ \A raises \in BOOLEAN :
                   /\ ~SummaryRaises(p, raises)
                   /\ get_profile_feedback_summary(p, raises) =
                          [total_feedback |-> 0, positive |-> 0,
                           negative |-> 0, refinements |-> 0,
                           recent_patterns |-> <<>>]

\* one profile has feedback stored and indexed, the other has none
C8_Witness ==
    /\ ~FileExists("q") /\ ~VectorStoreExists("q")
    /\ Len(feedback_file["p"]) = 2
    /\ Len(feedback_stores["p"]) = 2
    /\ last_store.called /\ ~last_store.result
    /\ last_store.entry.profile_name = "q"

(***************************************************************************)
(* Generation requests.                                                    *)
(***************************************************************************)
\* the feedback-aware attempt fails: it raises, or generates nothing
FeedbackPathFails(had_file, env) ==
    ~had_file \/ env.embed = "raise" \/ env.llm \in {"raise", "blank"}

\* the plain attempt raises
PlainPathFails(had_file, env) ==
    ~had_file \/ env.embed = "raise" \/ env.llm = "raise"

\* the plain attempt returns a post
PlainPathSucceeds(had_file, env) ==
    had_file /\ env.embed = "ok" /\ env.llm = "post"

\* C9: a /generate request on a profile with a sample file whose
\* feedback-aware attempt fails and whose plain attempts succeed answers
\* 200 with a non-empty post; and a /generate request answers 500 only if
\* the feedback-aware attempt failed and the plain attempts failed.
C9_FallbackToPlain ==
    (response.called /\ response.endpoint = "/generate") =>
        LET env == response.env
            had_file == response.had_file
        IN  /\ (/\ had_file
                /\ FeedbackPathFails(had_file, env[1])
                /\ PlainPathSucceeds(had_file, env[2])
                /\ PlainPathSucceeds(had_file, env[3])) =>
                   /\ response.answer.status = 200
                   /\ response.answer.result = PostText
            /\ response.answer.status = 500 =>
                   /\ FeedbackPathFails(had_file, env[1])
                   /\ PlainPathFails(had_file, env[2])
                   /\ PlainPathFails(had_file, env[3])

C9_Witness ==
    /\ response.called
    /\ response.endpoint = "/generate"
    /\ response.had_file
    /\ response.env[1].embed = "ok"
    /\ response.env[1].llm = "raise"
    /\ PlainPathSucceeds(TRUE, response.env[2])
    /\ response.answer.status = 200
    /\ response.answer.result = PostText

\* C10: a generation request that answers 200 carries a non-empty post.
C10_NoEmptySuccess ==
    (response.called /\ response.answer.status = 200) =>
        response.answer.result = PostText

\* a step that serves a request of the endpoint
Served(endpoint) ==
    /\ requests' = requests + 1
    /\ response'.endpoint = endpoint

\* C11: when a /generate request answers 500, the detail of the error
\* carries the error the feedback-aware attempt raised and the error the
\* plain fallback raised.
C11_CombinedErrorCarriesBoth ==
    [][(Served("/generate") /\ response'.answer.status = 500) =>
          LET attempt == feedback_attempt(response'.profile, vectorstores,
                                          response'.env[1])
              plain == generate_post(response'.profile, vectorstores',
                                     response'.env[3])
              detail == response'.answer.detail
          IN  /\ attempt.raised
              /\ plain.raised
              /\ attempt.error \in Range(detail)
              /\ plain.error \in Range(detail)]_vars

\* what the code does: the detail carries the errors of the two plain
\* attempts, the one inside generate_post_with_feedback and the one of the
\* handler
C11_CarriesPlainErrors ==
    [][(Served("/generate") /\ response'.answer.status = 500) =>
          LET inner == generate_post(response'.profile, vectorstores',
                                     response'.env[2])
              plain == generate_post(response'.profile, vectorstores',
                                     response'.env[3])
          IN  response'.answer.detail =
                  <<"Generation failed", inner.error, plain.error>>]_vars

\* C12: for the profile, the state and the outcomes of the generation calls
\* of a /generate request, /regenerate returns generated text exactly when
\* /generate does.
C12_RegenerateLikeGenerate ==
    [][Served("/generate") =>
          (response'.answer.status = 200 <=>
              api_regenerate_with_feedback(response'.profile,
                                           response'.env).status = 200)]_vars

\* what the code does: the two endpoints agree when the second plain call
\* of /generate, which /regenerate does not make, fares as the first did
C12_SameWhenPlainCallsAgree ==
    [][(Served("/generate") /\ response'.env[3] = response'.env[2]) =>
          LET regenerated == api_regenerate_with_feedback(response'.profile,
                                                          response'.env)
          IN  /\ response'.answer.status = regenerated.status
              /\ response'.answer.status = 200 =>
                     response'.answer.result = regenerated.result]_vars

(***************************************************************************)
(* The feedback log.                                                       *)
(***************************************************************************)
\* C13: every entry of every profile's feedback log has one of the three
\* kinds positive, negative, refinement.
C13_KindIsEnumerated ==
    \A e \in AllEntries : e.feedback_type \in Kinds

\* a is a prefix of b
IsPrefix(a, b) == Len(a) <= Len(b) /\ SubSeq(b, 1, Len(a)) = a

\* C14: across every step, the previous content of each profile's feedback
\* log is a prefix of its new content.
C14_AppendOnly ==
    [][\A p \in Profiles : IsPrefix(feedback_file[p], feedback_file'[p])]_vars

\* C15: within each profile's feedback log, an entry never carries an
\* earlier timestamp than an entry before it in the log.
C15_TimestampsNonDecreasing ==
    \A p \in Profiles :
        \A i, j \in 1..Len(feedback_file[p]) :
            i < j =>
                fromisoformat(feedback_file[p][i].timestamp) <=
                    fromisoformat(feedback_file[p][j].timestamp)

(***************************************************************************)
(* The summary.                                                            *)
(***************************************************************************)
\* C16: a get_profile_feedback_summary call changes neither the log nor
\* the index (in memory or saved), and when it repeats the call before it
\* with no store_feedback call in between (and the log as readable as it
\* was) it returns the same result.
C16_SummaryIsIdempotent ==
    [][summary_call' # summary_call =>
          /\ feedback_file' = feedback_file
          /\ feedback_stores' = feedback_stores
          /\ vector_disk' = vector_disk
          /\ summary_call'.previous.given =>
                 summary_call'.result = summary_call'.previous.result]_vars

\* the summary of a log of three entries was asked for twice in a row
C16_Witness ==
    /\ summary_call.called
    /\ summary_call.previous.given
    /\ ~summary_call.raises
    /\ summary_call.result.total_feedback = 3
    /\ Len(feedback_file[summary_call.profile_name]) = 3

\* C17: recent_patterns of the last summary taken of the current log holds
\* exactly min(5, total_feedback) entries, each an entry of the log and
\* none twice, ordered by timestamp descending, and no entry of the log
\* left out was created later than an entry that is included.
C17_RecentPatterns ==
    (summary_call.called /\ summary_call.at_calls = calls) =>
        LET result == summary_call.result
            recent == result.recent_patterns
            log == feedback_file[summary_call.profile_name]
            included == {recent[i].id : i \in 1..Len(recent)}
        IN  /\ Len(recent) = Min(5, result.total_feedback)
            /\ Cardinality(included) = Len(recent)
            /\ \A i \in 1..Len(recent) :
                   \E e \in Range(log) :
                       /\ e.id = recent[i].id
                       /\ e.timestamp = recent[i].timestamp
                       /\ e.feedback_type = recent[i].feedback_type
            /\ \A i, j \in 1..Len(recent) :
                   i < j => fromisoformat(recent[i].timestamp) >=
                                fromisoformat(recent[j].timestamp)
            /\ ~summary_call.raises =>
                   \A e \in Range(log) :
                       e.id \notin included =>
                           \A i \in 1..Len(recent) :
                               fromisoformat(e.timestamp) <=
                                   fromisoformat(recent[i].timestamp)

\* a log of six entries that ends with an old one, and a summary whose
\* five recent patterns leave out an entry older than one they include
C17_Witness ==
    /\ summary_call.called
    /\ summary_call.at_calls = calls
    /\ ~summary_call.raises
    /\ Len(feedback_file[summary_call.profile_name]) = 6
    /\ summary_call.result.total_feedback = 6
    /\ Len(summary_call.result.recent_patterns) = 5
    /\ LET log == feedback_file[summary_call.profile_name]
           recent == summary_call.result.recent_patterns
       IN  /\ StrLess(log[6].timestamp, log[1].timestamp)
           /\ \E e \in Range(log) :
                  /\ \A i \in 1..5 : recent[i].id # e.id
                  /\ StrLess(e.timestamp, recent[1].timestamp)

(***************************************************************************)
(* Profiles.                                                               *)
(***************************************************************************)
\* C18: a generation request that returns a post took its style exemplars
\* from an index holding every sample text of the profile's file, those
\* appended since the index was built included.
C18_IndexFollowsSamples ==
    [][(Served("/generate") /\ response'.answer.status = 200) =>
          style_index'[response'.profile] =
              samples[get_profile_file(response'.profile)]]_vars

\* what the code does: once a name is cached its index is never replaced
C18_CachedIndexIsKept ==
    [][\A name \in vectorstores :
          name \in vectorstores' /\ style_index'[name] = style_index[name]]_vars

\* C19: a POST /profiles request whose name resolves to a sample file that
\* exists is answered 400 and leaves every sample file as it was.
C19_CreateNeverOverwrites ==
    [][(/\ profile_response' # profile_response
        /\ profile_response'.endpoint = "POST /profiles"
        /\ profile_response'.path \in profile_files) =>
          /\ profile_response'.status = 400
          /\ samples' = samples
          /\ profile_files' = profile_files]_vars

\* a profile created under one spelling and appended to, and a request to
\* create it under another spelling answered 400
C19_Witness ==
    /\ profile_response.called
    /\ profile_response.endpoint = "POST /profiles"
    /\ profile_response.name = <<"W">>
    /\ profile_response.status = 400
    /\ Len(profile_response.before) = 2
    /\ samples[profile_response.path] = profile_response.before

\* the entries POST /feedback stored for the profile a listed name stands
\* for, under any spelling that resolves to the same profile
StoredForProfile(name) ==
    {e \in reported :
        get_profile_file(e.profile_name) = get_profile_file(name)}

\* C20: in the answer of a GET /profiles request made after the last
\* POST /feedback, feedbackCount of every listed profile is the number of
\* feedback entries stored for it, under whatever spelling of its name, and
\* learningScore is the number of its positive entries minus the number of
\* its negative ones.
C20_ListingCountsFeedback ==
    (/\ profile_response.called
     /\ profile_response.endpoint = "GET /profiles"
     /\ profile_response.at_calls = calls) =>
        \A row \in Range(profile_response.result) :
            LET stored == StoredForProfile(row.name)
                positive == {e \in stored : e.feedback_type = "positive"}
                negative == {e \in stored : e.feedback_type = "negative"}
            IN  /\ row.feedbackCount = Cardinality(stored)
                /\ row.learningScore =
                       Cardinality(positive) - Cardinality(negative)

\* what the code does: a listed profile is given the feedback stored under
\* exactly the listed name
C20_CountsTheListedSpelling ==
    (/\ profile_response.called
     /\ profile_response.endpoint = "GET /profiles"
     /\ profile_response.at_calls = calls) =>
        \A row \in Range(profile_response.result) :
            LET stored == {e \in reported : e.profile_name = row.name}
                positive == {e \in stored : e.feedback_type = "positive"}
                negative == {e \in stored : e.feedback_type = "negative"}
            IN  /\ row.feedbackCount = Cardinality(stored)
                /\ row.learningScore =
                       Cardinality(positive) - Cardinality(negative)

\* the names of the rows of the last answer of GET /profiles
ListedNames ==
    [i \in 1..Len(profile_response.result) |-> profile_response.result[i].name]

\* the sample files POST /profiles created
CreatedFiles == {f \in profile_files : f.dir = PROFILES_DIR}

\* C21: every answer of GET /profiles lists "default" and lists no name
\* twice, and every sample file POST /profiles created is the file its
\* listed name (its stem) resolves to, not the file of "default".
C21_UniqueAndReserved ==
    /\ (profile_response.called
            /\ profile_response.endpoint = "GET /profiles") =>
           /\ Default \in Range(ListedNames)
           /\ \A i, j \in 1..Len(ListedNames) :
                  i # j => ListedNames[i] # ListedNames[j]
    /\ \A f \in CreatedFiles : get_profile_file(f.stem) = f

\* what the code does: a name that slugifies to "default" gets a file of
\* its own next to the reserved one, and the listing then shows "default"
\* once for the reserved name and once for the stem of that file, both
\* rows read from the file of the reserved profile
C21_ShadowedRowRepeatsDefault ==
    (profile_response.called /\ profile_response.endpoint = "GET /profiles") =>
        LET rows == profile_response.result
        IN  /\ rows[1].name = Default
            /\ \A i, j \in 1..Len(rows) :
                   (i # j /\ rows[i].name = rows[j].name) =>
                       /\ rows[i] = rows[1]
                       /\ rows[j] = rows[1]
                       /\ get_profile_file(CapitalDefault) \in profile_files

(***************************************************************************)
(* Overlapping requests.                                                   *)
(***************************************************************************)
\* the step in which handler h writes the log and returns
Saves(h) == handlers[h].pc = "loaded" /\ handlers'[h].pc = "idle"

\* C22: nothing keeps a handler from reading a log another handler has
\* read and not yet written; and when a handler writes, the log becomes
\* the list it had read plus its own entry, so every entry written since
\* that read is gone from the log, while its call and the writer's both
\* reported success.
C22_LostUpdate ==
    [][\A h \in Handlers :
          Saves(h) =>
              LET e == handlers[h].feedback
                  p == e.profile_name
                  read == handlers[h].feedback_list
              IN  /\ feedback_file'[p] = Append(read, e)
                  /\ e \in reported'
                  /\ \A x \in Range(feedback_file[p]) \ Range(read) :
                         /\ x \in reported'
                         /\ x \notin Range(feedback_file'[p])]_vars

\* two calls for one profile overlapped, both reported success, and the
\* log holds one entry
C22_Witness ==
    /\ calls = 2
    /\ \A h \in Handlers : handlers[h].pc = "idle"
    /\ \E p \in Profiles :
          /\ Cardinality(ReportedFor(p)) = 2
          /\ Len(feedback_file[p]) = 1
          /\ Len(feedback_stores[p]) = 2

\* C23: of each lazily built shared object at most one instance is ever
\* constructed, and every caller of its getter is handed the same instance.
C23_SingleInstance ==
    \A r \in Resources :
        /\ shared.constructed[r] <= 1
        /\ Cardinality(shared.returned[r]) <= 1

\* what the code does when calls do not overlap: a getter that starts
\* after an instance was assigned constructs nothing
C23_NoConstructionOnceAssigned ==
    [][\A h \in Handlers :
          (handlers[h].pc = "idle" /\ handlers'[h].pc = "construct") =>
              shared.instance[handlers'[h].resource] = NoInstance]_vars

(***************************************************************************)
(* The prompts of a generation request.                                    *)
(***************************************************************************)
\* C24: in a /generate request in which a query of the feedback index
\* failed, the generation client is never called with the feedback-aware
\* prompt: every call it gets carries the plain prompt.
C24_RetrievalFailureFallsBack ==
    (prompt_call.called /\ prompt_call.retrieval_failed) =>
        \A i \in 1..Len(prompt_call.invocations) :
            prompt_call.invocations[i].template = "build_prompt"

\* what the code does: a kind whose query failed is taken as a kind with
\* no feedback, and the feedback-aware prompt is sent whenever the style
\* exemplars were found
C24_FailedQueryReadsAsEmpty ==
    (prompt_call.called /\ response.called) =>
        /\ (response.had_file /\ response.env[1].embed = "ok") =>
               /\ Len(prompt_call.invocations) >= 1
               /\ prompt_call.invocations[1].template =
                      "create_feedback_aware_prompt"
        /\ (prompt_call.retrieval_failed
               /\ \A kind \in Kinds : prompt_call.retrieved[kind] = <<>>) =>
               \A i \in 1..Len(prompt_call.invocations) :
                   prompt_call.invocations[i].feedback_context = <<>>

\* the positions of a feedback-aware call and of a plain call after it
FallbackPairs ==
    {pair \in (1..Len(prompt_call.invocations)) \X
                  (1..Len(prompt_call.invocations)) :
        /\ pair[1] < pair[2]
        /\ prompt_call.invocations[pair[1]].template =
               "create_feedback_aware_prompt"
        /\ prompt_call.invocations[pair[2]].template = "build_prompt"}

\* C25: a fallback call of the generation client carries the style
\* exemplars, the context and the instruction of the feedback-aware call
\* before it, and no feedback block; also when the request's instruction
\* is empty and a default instruction stands in for it.
C25_FallbackSameInputs ==
    prompt_call.called =>
        \A pair \in FallbackPairs :
            LET aware == prompt_call.invocations[pair[1]]
                plain == prompt_call.invocations[pair[2]]
            IN  /\ plain.style_examples = aware.style_examples
                /\ plain.context = aware.context
                /\ plain.custom_instruction = aware.custom_instruction
                /\ plain.feedback_context = <<>>

\* what the code does: the two calls carry the same instruction when the
\* request gives one, and each its own default when it gives none
C25_SameWhenInstructionGiven ==
    prompt_call.called =>
        \A pair \in FallbackPairs :
            LET aware == prompt_call.invocations[pair[1]]
                plain == prompt_call.invocations[pair[2]]
            IN  /\ plain.style_examples = aware.style_examples
                /\ plain.context = aware.context
                /\ plain.feedback_context = <<>>
                /\ IF prompt_call.instruction = ""
                   THEN /\ aware.custom_instruction =
                               "Write in your authentic style."
                        /\ plain.custom_instruction = "Write naturally."
                   ELSE /\ aware.custom_instruction = prompt_call.instruction
                        /\ plain.custom_instruction = prompt_call.instruction

(***************************************************************************)
(* The feedback block.                                                     *)
(***************************************************************************)
SectionTitle ==
    [positive |-> "POSITIVE PATTERNS TO FOLLOW",
     negative |-> "NEGATIVE PATTERNS TO AVOID",
     refinement |-> "REFINEMENT SUGGESTIONS TO CONSIDER"]

\* the positions of the block at which the section of a kind stands
SectionsOf(block, kind) ==
    {i \in 1..Len(block) : block[i].title = SectionTitle[kind]}

\* C26: the feedback block of an assembled prompt has a section for a
\* kind exactly when the retrieval of that kind returned an entry, and at
\* most one; a positive section stands before a negative one and both
\* before a refinement one; a section lists at most 2 entries; and when
\* the three retrievals are empty the block is empty.
C26_SectionsFollowRetrieval ==
    prompt_call.called =>
        LET block == prompt_call.feedback_context
            retrieved == prompt_call.retrieved
        IN  /\ \A kind \in Kinds :
                   /\ SectionsOf(block, kind) # {} <=> retrieved[kind] # <<>>
                   /\ Cardinality(SectionsOf(block, kind)) <= 1
                   /\ \A i \in SectionsOf(block, kind) :
                          /\ Len(block[i].items) <= 2
                          /\ Len(block[i].items) = Len(retrieved[kind])
            /\ \A i \in SectionsOf(block, "positive"),
                     j \in SectionsOf(block, "negative") : i < j
            /\ \A i \in SectionsOf(block, "negative"),
                     j \in SectionsOf(block, "refinement") : i < j
            /\ \A i \in SectionsOf(block, "positive"),
                     j \in SectionsOf(block, "refinement") : i < j
            /\ (\A kind \in Kinds : retrieved[kind] = <<>>) => block = <<>>

\* an index of two positive entries and a refinement one, and a prompt
\* whose block has a positive section of 2 entries and a refinement
\* section, and no negative one
C26_Witness ==
    /\ prompt_call.called
    /\ Len(feedback_stores["p"]) = 3
    /\ prompt_call.failed = {}
    /\ LET block == prompt_call.feedback_context
       IN  /\ Len(block) = 4
           /\ block[2].title = "POSITIVE PATTERNS TO FOLLOW"
           /\ Len(block[2].items) = 2
           /\ block[3].title = "REFINEMENT SUGGESTIONS TO CONSIDER"
           /\ Len(block[3].items) = 1
           /\ SectionsOf(block, "negative") = {}

\* a field of the entry other than the feedback text holds a label
LabelElsewhere(entry) ==
    \E text \in {entry.original_context, entry.original_instruction,
                  entry.generated_post} :
        Contains(text, "Feedback:") \/ Contains(text, "Refinement:")

\* C27: the feedback text parsed from the document of an entry is the
\* entry's feedback text, and for a refinement entry with a refinement
\* instruction the parsed refinement text is that instruction, whatever
\* the context, the instruction and the generated post hold; and the
\* placeholder is the result only of a document without labelled line.
C27_ParseReturnsFeedbackText ==
    prompt_call.called =>
        LET entry == prompt_call.entry
        IN  /\ prompt_call.feedback_text = entry.feedback_text
            /\ (entry.feedback_type = "refinement"
                   /\ entry.refinement_instruction # <<>>) =>
                   /\ prompt_call.refinement_text.found
                   /\ prompt_call.refinement_text.text =
                          entry.refinement_instruction
            /\ prompt_call.feedback_text = UnknownFeedback =>
                   ~Contains(prompt_call.content, "Feedback:")

\* what the code does: the texts come back when no other field of the
\* entry holds a label
C27_ParseWithoutOtherLabels ==
    (prompt_call.called /\ ~LabelElsewhere(prompt_call.entry)) =>
        LET entry == prompt_call.entry
        IN  /\ prompt_call.feedback_text = entry.feedback_text
            /\ entry.refinement_instruction # <<>> =>
                   /\ prompt_call.refinement_text.found
                   /\ prompt_call.refinement_text.text =
                          entry.refinement_instruction
            /\ entry.refinement_instruction = <<>> =>
                   ~prompt_call.refinement_text.found

(***************************************************************************)
(* The log and the index.                                                  *)
(***************************************************************************)
\* every document of a profile's index, in memory or saved, is the
\* document of an entry of the profile's log
IndexWithinLog ==
    \A p \in Profiles :
        \A doc \in Range(feedback_stores[p]) \cup Range(vector_disk[p]) :
            \E e \in EntriesOf(p) : Document(e) = doc

Restarts == calls' = calls
Stores == calls' = calls + 1

\* C29: across a restart the summary of every profile stays the same and
\* the reloaded index of every profile holds every document it held
\* before; and a store_feedback call leaves every document of the saved
\* index in the saved index.
C29_PersistsAcrossRestart ==
    [][/\ Restarts =>
              \A p \in Profiles :
                  /\ get_profile_feedback_summary(p, FALSE)' =
                         get_profile_feedback_summary(p, FALSE)
                  /\ Range(feedback_stores[p]) \subseteq
                         Range(feedback_stores'[p])
       /\ Stores =>
              \A p \in Profiles :
                  Range(vector_disk[p]) \subseteq Range(vector_disk'[p])]_vars

\* what the code does: a restart leaves the log and the saved index as
\* they are and gives each profile its saved index, or no index when the
\* load fails; and a store_feedback call for a profile without in-memory
\* index saves an index of the new document alone
C29_ReloadsTheSavedIndex ==
    [][/\ Restarts =>
              \A p \in Profiles :
                  /\ feedback_file'[p] = feedback_file[p]
                  /\ vector_disk'[p] = vector_disk[p]
                  /\ feedback_stores'[p] \in {vector_disk[p], <<>>}
       /\ Stores =>
              \A p \in Profiles :
                  (vector_disk'[p] # vector_disk[p]
                      /\ ~InFeedbackStores(p)) =>
                      vector_disk'[p] = <<Document(last_store'.entry)>>]_vars

(***************************************************************************)
(* Profiles are kept apart.                                                *)
(***************************************************************************)
\* the entry a retrieved document was made of was stored for q
StoredFor(doc, q) ==
    /\ doc.metadata.profile_name = q
    /\ \A e \in AllEntries : e.id = doc.id => e.profile_name = q

\* C30: a store_feedback call for a profile leaves the log, the index (in
\* memory and saved), the summary and every get_relevant_feedback result
\* of every other profile as they were, and after it get_relevant_feedback
\* for a profile returns only documents of entries stored for that profile.
C30_ProfileSpecific ==
    [][Stores =>
          /\ \A q \in Profiles \ {last_store'.entry.profile_name} :
                 /\ feedback_file'[q] = feedback_file[q]
                 /\ feedback_stores'[q] = feedback_stores[q]
                 /\ vector_disk'[q] = vector_disk[q]
                 /\ get_profile_feedback_summary(q, FALSE)' =
                        get_profile_feedback_summary(q, FALSE)
                 /\ \A c \in Contexts, ft \in QueryTypes, k \in Ks :
                        RelevantFeedback(q, c, ft, k)' =
                            RelevantFeedback(q, c, ft, k)
          /\ \A q \in Profiles, c \in Contexts, ft \in QueryTypes, k \in Ks :
                 \A r \in RelevantFeedback(q, c, ft, k)' :
                     \A doc \in Range(r) : StoredFor(doc, q)']_vars

\* feedback was stored and indexed for a profile whose neighbour holds an
\* indexed entry of its own
C30_Witness ==
    /\ last_store.called
    /\ last_store.result
    /\ last_store.fault = "none"
    /\ last_store.entry.profile_name = "p"
    /\ Len(feedback_stores["p"]) = 1
    /\ Len(feedback_stores["q"]) = 1
    /\ Len(feedback_file["q"]) = 1
    /\ \E r \in RelevantFeedback("q", 0, NoType, 1) : Len(r) = 1

====
